---- MODULE Spec2Model ----
\* Simple-Wave-Synth (src/src/main.rs): the pitch resolver Note::frequency, the
\* sample generator SineWave (new / Iterator::next) and the sequencing loop of
\* main, which appends one tone stream and one 5 ms silence stream per note to
\* a FIFO sink that an audio consumer drains concurrently.
EXTENDS Integers, Sequences, FiniteSets

VARIABLES notes, pc, i, freq, sink, playing, emitted, last, err

vars == <<notes, pc, i, freq, sink, playing, emitted, last, err>>

----------------------------------------------------------------------------
\* f32 arithmetic.  A non-negative finite f32 is [m, e] with value m * 2^e,
\* 2^23 <= m < 2^24 (24-bit significand), or m = 0, e = 0.  Every operation
\* rounds to nearest, ties to even, as IEEE 754 binary32 does.  Exponents
\* stay far from the subnormal and overflow ranges for the values used here.

Pow2(k) == 2 ^ k

F32Zero == [m |-> 0, e |-> 0]

\* Number of low bits to drop so that M fits a 24-bit significand.
RECURSIVE DropBits(_)
DropBits(M) == IF M < Pow2(24) THEN 0 ELSE 1 + DropBits(M \div 2)

RECURSIVE F32Normal(_, _)
F32Normal(M, E) ==
    IF M >= Pow2(23) THEN [m |-> M, e |-> E] ELSE F32Normal(2 * M, E - 1)

\* The f32 nearest to M * 2^E (0 <= M < 2^31), ties to even.
F32Round(M, E) ==
    IF M = 0 THEN F32Zero
    ELSE IF M < Pow2(24) THEN F32Normal(M, E)
    ELSE LET s    == DropBits(M)
             q    == M \div Pow2(s)
             r    == M % Pow2(s)
             half == Pow2(s - 1)
             up   == r > half \/ (r = half /\ q % 2 = 1)
             q1   == IF up THEN q + 1 ELSE q
         IN  IF q1 = Pow2(24) THEN [m |-> Pow2(23), e |-> E + s + 1]
             ELSE [m |-> q1, e |-> E + s]

F32FromInt(n) == F32Round(n, 0)

F32One == F32FromInt(1)

\* a >= b
F32Ge(a, b) ==
    IF b.m = 0 THEN TRUE
    ELSE IF a.m = 0 THEN FALSE
    ELSE a.e > b.e \/ (a.e = b.e /\ a.m >= b.m)

\* a + b: the smaller operand is aligned with three extra bits, the bits
\* shifted out are kept as a sticky bit, and the sum is rounded once.
F32Add(a, b) ==
    IF a.m = 0 THEN b
    ELSE IF b.m = 0 THEN a
    ELSE LET hi == IF a.e >= b.e THEN a ELSE b
             lo == IF a.e >= b.e THEN b ELSE a
             d  == hi.e - lo.e
             A  == hi.m * 8
             B  == IF d > 27 THEN 1
                   ELSE LET q == (lo.m * 8) \div Pow2(d)
                            r == (lo.m * 8) % Pow2(d)
                        IN  IF r # 0 /\ q % 2 = 0 THEN q + 1 ELSE q
         IN  F32Round(A + B, hi.e - 3)

\* a * b: the 48-bit product of the significands is formed from 12-bit limbs;
\* its top bits and a sticky bit are rounded once.
F32Mul(a, b) ==
    IF a.m = 0 \/ b.m = 0 THEN F32Zero
    ELSE LET a1   == a.m \div Pow2(12)
             a0   == a.m % Pow2(12)
             b1   == b.m \div Pow2(12)
             b0   == b.m % Pow2(12)
             mid  == a1 * b0 + a0 * b1
             rest == (mid % Pow2(12)) * Pow2(12) + a0 * b0
             hi   == a1 * b1 + (mid \div Pow2(12)) + (rest \div Pow2(24))
             lo   == rest % Pow2(24)
             top  == hi * Pow2(6) + (lo \div Pow2(18))
             M    == IF lo % Pow2(18) # 0 /\ top % 2 = 0 THEN top + 1 ELSE top
         IN  F32Round(M, a.e + b.e + 18)

\* Long division: n more quotient bits of r / d, with the final remainder.
RECURSIVE DivBits(_, _, _, _)
DivBits(r, d, n, q) ==
    IF n = 0 THEN <<q, r>>
    ELSE IF r >= d THEN DivBits(2 * (r - d), d, n - 1, 2 * q + 1)
    ELSE DivBits(2 * r, d, n - 1, 2 * q)

\* a / b (b > 0): 27 quotient bits and a sticky bit, rounded once.
F32Div(a, b) ==
    IF a.m = 0 THEN F32Zero
    ELSE LET qr == DivBits(a.m, b.m, 27, 0)
             M  == 2 * qr[1] + (IF qr[2] # 0 THEN 1 ELSE 0)
         IN  F32Round(M, a.e - b.e - 27)

----------------------------------------------------------------------------
\* Characters and note names.  A note name is a sequence of characters; each
\* character is a one-element string, except "U+00E9" (e acute), which stands
\* for a character whose UTF-8 encoding takes two bytes.

Letters == {"A", "B", "C", "D", "E", "F", "G"}

Digits == {"0", "1", "2", "3", "4", "5", "6", "7", "8", "9"}

Alphabet == Letters \cup Digits \cup {"H", "b", "#", "x", "U+00E9"}

Utf8Len(c) == IF c = "U+00E9" THEN 2 ELSE 1

\* String::len(): the length in bytes.
RECURSIVE StrLen(_)
StrLen(s) == IF s = <<>> THEN 0 ELSE Utf8Len(Head(s)) + StrLen(Tail(s))

None == [some |-> FALSE, v |-> 0]

Some(x) == [some |-> TRUE, v |-> x]

\* chars().nth(k), k counted from 0.
CharsNth(s, k) == IF k + 1 <= Len(s) THEN Some(s[k + 1]) ELSE None

\* char::to_digit(10)
ToDigit(c) ==
    CASE c = "0" -> Some(0) [] c = "1" -> Some(1) [] c = "2" -> Some(2)
      [] c = "3" -> Some(3) [] c = "4" -> Some(4) [] c = "5" -> Some(5)
      [] c = "6" -> Some(6) [] c = "7" -> Some(7) [] c = "8" -> Some(8)
      [] c = "9" -> Some(9) [] OTHER -> None

OCTAVE_SEMITONES == 12

\* A frequency is kept in closed form: Hz(n) stands for the f32 value of
\* 2.0_f32.powf(n as f32 / 12.0) * A4_FREQ, FreqZero for the literal 0.0.
Hz(n) == [zero |-> FALSE, semis |-> n]

FreqZero == [zero |-> TRUE, semis |-> 0]

\* The outcome of a call that may panic.
Ok(f) == [ok |-> TRUE, freq |-> f, err |-> "none"]

Panic(kind) == [ok |-> FALSE, freq |-> FreqZero, err |-> kind]

\* Semitones that A/B/C/... is from A in the same octave (the match on `note`).
LetterOffset_swapped(note) ==
    CASE note = "A" -> Some(0)  [] note = "B" -> Some(2)
      [] note = "C" -> Some(-9) [] note = "D" -> Some(-5)
      [] note = "E" -> Some(-7) [] note = "F" -> Some(-4)
      [] note = "G" -> Some(-2) [] OTHER -> None

LetterOffset(note) ==
    CASE note = "A" -> Some(0)  [] note = "B" -> Some(2)
      [] note = "C" -> Some(-9) [] note = "D" -> Some(-7)
      [] note = "E" -> Some(-5) [] note = "F" -> Some(-4)
      [] note = "G" -> Some(-2) [] OTHER -> None

\* The match on `accidental`.
AccidentalOffset_flat_ignored(accidental) ==
    CASE accidental = "b" -> Some(0)
      [] accidental = "#" -> Some(1)
      [] OTHER -> None

AccidentalOffset(accidental) ==
    CASE accidental = "b" -> Some(-1)
      [] accidental = "#" -> Some(1)
      [] OTHER -> None

\* The second half of Note::frequency: the letter table and the formula.
Resolve_tail(note, relative_octave, accidental_offset) ==
    LET n == LetterOffset(note)
    IN  IF ~n.some THEN Panic("InvalidNoteLetter")
        ELSE Ok(Hz(n.v + relative_octave * OCTAVE_SEMITONES + accidental_offset))

\* Note::frequency.  The panics are named after the statement that raises
\* them: "InvalidNote" (line 45), "InvalidAccidental" (line 38),
\* "InvalidNoteLetter" (line 59), "UnwrapNoneDigit" (to_digit(10).unwrap())
\* and "UnwrapNoneChar" (chars().nth(k).unwrap()).
Note_frequency(self) ==
    LET name == self.note
        len  == StrLen(name)
    IN  IF len = 2 THEN
            LET c1 == CharsNth(name, 1)
            IN  IF ~c1.some THEN Panic("UnwrapNoneChar")
                ELSE IF ~ToDigit(c1.v).some THEN Panic("UnwrapNoneDigit")
                ELSE Resolve_tail(CharsNth(name, 0).v, ToDigit(c1.v).v - 4, 0)
        ELSE IF len = 3 THEN
            LET c1 == CharsNth(name, 1)
                c2 == CharsNth(name, 2)
            IN  IF ~c1.some THEN Panic("UnwrapNoneChar")
                ELSE IF ~AccidentalOffset(c1.v).some THEN Panic("InvalidAccidental")
                ELSE IF ~c2.some THEN Panic("UnwrapNoneChar")
                ELSE IF ~ToDigit(c2.v).some THEN Panic("UnwrapNoneDigit")
                ELSE Resolve_tail(CharsNth(name, 0).v, ToDigit(c2.v).v - 4,
                                  AccidentalOffset(c1.v).v)
        ELSE Panic("InvalidNote")

----------------------------------------------------------------------------
\* SineWave.

SAMPLE_RATE == F32FromInt(44100)

\* A sample value: exactly 0.0, or sin(2 pi f t) * 0.5 kept in closed form.
ZeroSample == [zero |-> TRUE, f |-> FreqZero, t |-> F32Zero]

\* (2.0 * PI * frequency * t).sin() * 0.5: the product is exactly 0.0 when
\* frequency or t is 0.0, sin(0.0) = 0.0 and 0.0 * 0.5 = 0.0.
SineOutput_cosine(frequency, t) == [zero |-> FALSE, f |-> frequency, t |-> t]

SineOutput(frequency, t) ==
    IF frequency.zero \/ t = F32Zero THEN ZeroSample
    ELSE [zero |-> FALSE, f |-> frequency, t |-> t]

SineWave_new(frequency, duration) ==
    [frequency      |-> frequency,
     duration       |-> duration,
     current_sample |-> F32Zero,
     total_samples  |-> F32Mul(duration, SAMPLE_RATE)]

\* Iterator::next: the item returned and the stream afterwards.
SineWave_next_strict(self) ==
    IF ~F32Ge(self.total_samples, self.current_sample)
    THEN [item |-> None, wave |-> self]
    ELSE [item |-> Some(SineOutput(self.frequency,
                                   F32Div(self.current_sample, SAMPLE_RATE))),
          wave |-> [self EXCEPT !.current_sample = F32Add(@, F32One)]]

SineWave_next_rewinds(self) ==
    IF F32Ge(self.current_sample, self.total_samples)
    THEN [item |-> None, wave |-> [self EXCEPT !.current_sample = F32Zero]]
    ELSE [item |-> Some(SineOutput(self.frequency,
                                   F32Div(self.current_sample, SAMPLE_RATE))),
          wave |-> [self EXCEPT !.current_sample = F32Add(@, F32One)]]

SineWave_next(self) ==
    IF F32Ge(self.current_sample, self.total_samples)
    THEN [item |-> None, wave |-> self]
    ELSE [item |-> Some(SineOutput(self.frequency,
                                   F32Div(self.current_sample, SAMPLE_RATE))),
          wave |-> [self EXCEPT !.current_sample = F32Add(@, F32One)]]

----------------------------------------------------------------------------
\* main: the sequencing loop and the sink's consumer.
\*   notes    the decoded song, a sequence of [note, duration]
\*   pc       "loop" (at the head of the for loop, or past it, waiting in
\*            sleep_until_end), "tone", "gap", "done", "panicked"
\*   i        index of the note the loop is at (1-based)
\*   freq     the local `freq` of the loop body
\*   sink     every stream appended to output_sink, in append order
\*   playing  index in sink of the stream the consumer pulls from
\*   emitted  per stream, how many samples the consumer has received from it
\*   last     the consumer's latest pull: the stream pulled and the item got
\*   err      the panic that ended the run, if any

\* The literal 0.005_f32.
GAP_DURATION == [m |-> 10737418, e |-> -31]

\* 2^-15 s (1.3458 samples) as f32.
TinyDuration == [m |-> 8388608, e |-> -38]

SongNotes ==
    {[note |-> <<"A", "4">>, duration |-> TinyDuration],
     [note |-> <<"A", "4">>, duration |-> GAP_DURATION],
     [note |-> <<"C", "#", "5">>, duration |-> F32Zero],
     [note |-> <<"H", "4">>, duration |-> TinyDuration]}

MaxNotes == 2

MaxNameLen == 3

MaxOverrun == 3

Window == 40

SeqsUpTo(S, n) == UNION {[1..k -> S] : k \in 0..n}

NoPull == [stream |-> 0, item |-> None]

Init ==
    /\ notes \in SeqsUpTo(SongNotes, MaxNotes)
    /\ pc = "loop"
    /\ i = 1
    /\ freq = FreqZero
    /\ sink = <<>>
    /\ playing = 1
    /\ emitted = <<>>
    /\ last = NoPull
    /\ err = "none"

\* let freq = note.frequency();
Resolve ==
    /\ pc = "loop"
    /\ i <= Len(notes)
    /\ LET r == Note_frequency(notes[i])
       IN  IF r.ok
           THEN pc' = "tone" /\ freq' = r.freq /\ err' = err
           ELSE pc' = "panicked" /\ freq' = freq /\ err' = r.err
    /\ UNCHANGED <<notes, i, sink, playing, emitted, last>>

\* output_sink.append(SineWave::new(freq, note.duration));
AppendTone ==
    /\ pc = "tone"
    /\ sink' = Append(sink, SineWave_new(freq, notes[i].duration))
    /\ emitted' = Append(emitted, 0)
    /\ pc' = "gap"
    /\ UNCHANGED <<notes, i, freq, playing, last, err>>

\* output_sink.append(SineWave::new(0.0, 0.005)); and the loop's next turn.
AppendGap_omitted ==
    /\ pc = "gap"
    /\ pc' = "loop"
    /\ i' = i + 1
    /\ UNCHANGED <<notes, freq, sink, emitted, playing, last, err>>

AppendGap ==
    /\ pc = "gap"
    /\ sink' = Append(sink, SineWave_new(FreqZero, GAP_DURATION))
    /\ emitted' = Append(emitted, 0)
    /\ pc' = "loop"
    /\ i' = i + 1
    /\ UNCHANGED <<notes, freq, playing, last, err>>

\* output_sink.sleep_until_end(); returns once the sink has been drained.
SleepUntilEnd ==
    /\ pc = "loop"
    /\ i > Len(notes)
    /\ playing > Len(sink)
    /\ pc' = "done"
    /\ UNCHANGED <<notes, i, freq, sink, playing, emitted, last, err>>

\* The consumer pulls one item from the stream at the head of the sink; on
\* None it moves to the stream appended next.  It runs while main holds the
\* sink: main's return and a panic's unwinding both drop it.  The count of
\* samples received is capped MaxOverrun past 2^24.
Play ==
    /\ pc \notin {"done", "panicked"}
    /\ playing <= Len(sink)
    /\ emitted[playing] < Pow2(24) + MaxOverrun
    /\ LET r == SineWave_next(sink[playing])
       IN  /\ sink' = [sink EXCEPT ![playing] = r.wave]
           /\ last' = [stream |-> playing, item |-> r.item]
           /\ IF r.item.some
              THEN /\ emitted' = [emitted EXCEPT ![playing] = @ + 1]
                   /\ playing' = playing
              ELSE /\ emitted' = emitted
                   /\ playing' = playing + 1
    /\ UNCHANGED <<notes, pc, i, freq, err>>

Next == Resolve \/ AppendTone \/ AppendGap \/ SleepUntilEnd \/ Play

Spec == Init /\ [][Next]_vars

\* The resolver alone: one note, any name of up to MaxNameLen characters.
Names == SeqsUpTo(Alphabet, MaxNameLen)

InitResolver ==
    /\ notes \in {<<[note |-> name, duration |-> F32Zero]>> : name \in Names}
    /\ pc = "loop"
    /\ i = 1
    /\ freq = FreqZero
    /\ sink = <<>>
    /\ playing = 1
    /\ emitted = <<>>
    /\ last = NoPull
    /\ err = "none"

NextResolver == Resolve

SpecResolver == InitResolver /\ [][NextResolver]_vars

\* Long notes.  Durations whose sample counts lie around 2^24: 16777214,
\* 16777216 and 16777218 samples, and 512 s (22579200 samples).
LongDurations ==
    {[m |-> 12466117, e |-> -15], [m |-> 12466118, e |-> -15],
     [m |-> 12466119, e |-> -15], [m |-> 8388608, e |-> -14]}

\* A stream after k pulls that each returned a sample, k <= 2^24: every
\* integer up to 2^24 is an f32, so k additions of 1.0 to 0.0 give k.
Pulled(wave, k) == [wave EXCEPT !.current_sample = F32FromInt(k)]

\* The song is one long A4; the loop has appended both streams and main waits
\* in sleep_until_end; the consumer has pulled 2^24 - Window samples.
InitLong ==
    /\ notes \in {<<[note |-> <<"A", "4">>, duration |-> d]>> : d \in LongDurations}
    /\ pc = "loop"
    /\ i = 2
    /\ freq = Hz(0)
    /\ sink = <<Pulled(SineWave_new(Hz(0), notes[1].duration), Pow2(24) - Window),
                SineWave_new(FreqZero, GAP_DURATION)>>
    /\ playing = 1
    /\ emitted = <<Pow2(24) - Window, 0>>
    /\ last = [stream |-> 1,
               item |-> Some(SineOutput(Hz(0),
                              F32Div(F32FromInt(Pow2(24) - Window - 1), SAMPLE_RATE)))]
    /\ err = "none"

NextLong == Play \/ SleepUntilEnd

SpecLong == InitLong /\ [][NextLong]_vars

----------------------------------------------------------------------------
\* The notation and the numbers the properties are stated in.

Accidentals == {"b", "#"}

\* A valid pitch name: letter A..G, optional accidental, octave digit.
ValidName(name) ==
    /\ Len(name) \in {2, 3}
    /\ name[1] \in Letters
    /\ name[Len(name)] \in Digits
    /\ Len(name) = 3 => name[2] \in Accidentals

DigitOrder == <<"0", "1", "2", "3", "4", "5", "6", "7", "8", "9">>

OctaveOf(c) == (CHOOSE k \in 1..10 : DigitOrder[k] = c) - 1

SemitoneTable(c) ==
    CASE c = "A" -> 0 [] c = "B" -> 2 [] c = "C" -> -9 [] c = "D" -> -7
      [] c = "E" -> -5 [] c = "F" -> -4 [] c = "G" -> -2

\* n = table(letter) + (digit - 4) * 12 + accidental, for a valid name.
SemitoneDistance(name) ==
    SemitoneTable(name[1]) + (OctaveOf(name[Len(name)]) - 4) * 12
      + (IF Len(name) = 2 THEN 0 ELSE IF name[2] = "b" THEN -1 ELSE 1)

WithOctave(name, d) == [name EXCEPT ![Len(name)] = d]

NoteOf(name) == [note |-> name, duration |-> F32Zero]

\* The integer an integer-valued f32 holds.
F32ToInt(x) == IF x.e >= 0 THEN x.m * Pow2(x.e) ELSE x.m \div Pow2(-x.e)

\* The least integer >= x.
CeilOf(x) ==
    IF x.m = 0 THEN 0
    ELSE IF x.e >= 0 THEN x.m * Pow2(x.e)
    ELSE IF -x.e >= 24 THEN 1
    ELSE (x.m \div Pow2(-x.e)) + (IF x.m % Pow2(-x.e) # 0 THEN 1 ELSE 0)

\* x rounded to the nearest integer, halves away from zero (f32::round).
RoundOf(x) ==
    IF x.m = 0 THEN 0
    ELSE IF x.e >= 0 THEN x.m * Pow2(x.e)
    ELSE IF -x.e >= 25 THEN 0
    ELSE (x.m + Pow2(-x.e - 1)) \div Pow2(-x.e)

Exhausted(wave) == ~SineWave_next(wave).item.some

AllValid == \A k \in 1..Len(notes) : ValidName(notes[k].note)

LoopOver == (pc = "loop" /\ i > Len(notes)) \/ pc = "done"

----------------------------------------------------------------------------
\* C1: for a song of N valid notes the sink receives, in input order, the tone
\* stream of note k (its resolved frequency, its duration) at position 2k-1
\* and a silence stream (frequency 0, 0.005 s) at position 2k; once the loop
\* is over it holds exactly 2N streams; and the consumer takes the streams in
\* append order: every stream before the one it pulls from is exhausted and
\* every stream after it is untouched.
C1_PlaybackSequence ==
    AllValid =>
        /\ pc # "panicked"
        /\ Len(sink) <= 2 * Len(notes)
        /\ LoopOver => Len(sink) = 2 * Len(notes)
        /\ pc = "gap" => Len(sink) = 2 * i - 1
        /\ pc \in {"loop", "tone"} => Len(sink) = 2 * (i - 1)
        /\ \A k \in 1..Len(sink) :
              LET n == notes[(k + 1) \div 2]
              IN  IF k % 2 = 1
                  THEN /\ sink[k].frequency = Hz(SemitoneDistance(n.note))
                       /\ sink[k].duration = n.duration
                  ELSE /\ sink[k].frequency = FreqZero
                       /\ sink[k].duration = GAP_DURATION
        /\ playing <= Len(sink) + 1
        /\ \A k \in 1..Len(sink) :
              /\ k < playing => Exhausted(sink[k])
              /\ k > playing => sink[k].current_sample = F32Zero /\ emitted[k] = 0

C1_TwoNotesPlayed ==
    /\ pc = "done"
    /\ Len(notes) = 2
    /\ AllValid
    /\ notes[1].note # notes[2].note
    /\ Len(sink) = 4
    /\ playing = 5

\* C2: in a run that ends in the malformed-note panic no stream of the song
\* has been appended to the sink, wherever the bad note stands in the list,
\* and the note the run stopped at is the first malformed one.
C2_NoPartialPlayback ==
    pc = "panicked" =>
        /\ sink = <<>>
        /\ ~ValidName(notes[i].note)
        /\ \A k \in 1..(i - 1) : ValidName(notes[k].note)

C4_StreamIsFinite ==
    \A k \in 1..Len(sink) :
        ~Exhausted(sink[k]) =>
            ~F32Ge(sink[k].current_sample, SineWave_next(sink[k]).wave.current_sample)

C6_MatchingErrorKind ==
    pc # "loop" =>
        LET name == notes[1].note
            n    == Len(name)
            okLetter == n >= 1 /\ name[1] \in Letters
            okDigit  == n >= 1 /\ name[n] \in Digits
            okAcc    == n = 3 => name[2] \in Accidentals
        IN  /\ ~ValidName(name) => pc = "panicked"
            /\ n \notin {2, 3} => err = "InvalidNote"
            /\ (n \in {2, 3} /\ ~okLetter /\ okDigit /\ okAcc)
                  => err = "InvalidNoteLetter"
            /\ (n = 3 /\ okLetter /\ okDigit /\ ~okAcc)
                  => err = "InvalidAccidental"
            /\ (n \in {2, 3} /\ okLetter /\ ~okDigit /\ okAcc)
                  => err = "UnwrapNoneDigit"

\* C7: in every octave the sharp of C, D, F, G, A and the flat of the letter a
\* whole tone above it resolve to the same frequency.
WholeToneAbove(c) ==
    CASE c = "C" -> "D" [] c = "D" -> "E" [] c = "F" -> "G"
      [] c = "G" -> "A" [] c = "A" -> "B"

C7_Enharmonic ==
    LET name == notes[1].note
    IN  (/\ pc # "loop"
         /\ Len(name) = 3
         /\ name[1] \in {"C", "D", "F", "G", "A"}
         /\ name[2] = "#"
         /\ name[3] \in Digits) =>
            LET flat == Note_frequency(NoteOf(<<WholeToneAbove(name[1]), "b", name[3]>>))
            IN  /\ pc = "tone"
                /\ flat.ok
                /\ flat.freq = freq
                /\ freq = Hz(SemitoneDistance(name))

C7_GSharpResolved ==
    /\ pc = "tone"
    /\ notes[1].note = <<"G", "#", "4">>
    /\ freq = Hz(-1)

\* C8: a stream of frequency 0 yields the value 0 on every pull that yields a
\* sample; it yields as many samples as a tone stream of the same duration;
\* and every gap stream the loop appends is such a stream.
C8_SilenceLaw ==
    /\ \A k \in 1..Len(sink) :
          /\ k % 2 = 0 => sink[k].frequency = FreqZero
          /\ sink[k].frequency = FreqZero =>
                LET r == SineWave_next(sink[k])
                IN  r.item.some => r.item.v = ZeroSample
    /\ (last.stream >= 1 /\ last.item.some /\ sink[last.stream].frequency = FreqZero)
          => last.item.v = ZeroSample
    /\ \A j, k \in 1..Len(sink) :
          (j < playing /\ k < playing /\ sink[j].duration = sink[k].duration)
              => emitted[j] = emitted[k]

C8_SilencePlayed ==
    /\ last.stream = 2
    /\ last.item.some
    /\ emitted[2] = 221
    /\ playing = 2
    /\ ~sink[1].frequency.zero
    /\ sink[1].duration = GAP_DURATION
    /\ emitted[1] = 221

\* C9: the position index of a stream always equals the number of samples it
\* has emitted, and the latest sample emitted is the one for the time
\* (emitted - 1) / 44100.
C9_IndexCountsSamples ==
    /\ \A k \in 1..Len(sink) : F32ToInt(sink[k].current_sample) = emitted[k]
    /\ (last.stream >= 1 /\ last.item.some /\ ~last.item.v.zero) =>
          last.item.v.t = F32Div(F32FromInt(emitted[last.stream] - 1), SAMPLE_RATE)

\* C10: a pull that reports exhausted leaves the stream as it was, so every
\* later pull reports exhausted too; a pull that yields a sample changes only
\* the position index.
C10_NotRestartable ==
    /\ \A k \in 1..Len(sink) :
          LET r == SineWave_next(sink[k])
          IN  IF r.item.some
              THEN /\ r.wave.frequency = sink[k].frequency
                   /\ r.wave.duration = sink[k].duration
                   /\ r.wave.total_samples = sink[k].total_samples
              ELSE /\ r.wave = sink[k]
                   /\ ~SineWave_next(r.wave).item.some
    /\ \A k \in 1..Len(sink) : k < playing => Exhausted(sink[k])

C10_ExhaustedAfterSamples ==
    /\ last.stream >= 1
    /\ ~last.item.some
    /\ emitted[last.stream] > 0
    /\ playing = last.stream + 1

====
